---------------------------- MODULE Spec2Model ----------------------------
(***************************************************************************)
(* Streaming chat relay of js-rag-demo: the /chat handler of               *)
(* assignment3_streaming_chat/server.js, the byte transport of the HTTP    *)
(* response, and the SSE read loop of the browser client (client.js).      *)
(*                                                                         *)
(* The handler is modelled twice: once for one turn with its client, and   *)
(* once as two invocations that interleave at every await, over the        *)
(* variables of server.js by scope. The RAG scripts (file-output-rag.js,   *)
(* index.js, runBasicRAG) are modelled as one run: ingestion, then the     *)
(* queries one after the other. The chat page is also modelled over        *)
(* several submits, the chromaClient.js helpers with a caller, and the     *)
(* WebSocket chat with its server and two pages.                           *)
(*                                                                         *)
(* Text is a sequence of one-character strings; the response body is a     *)
(* sequence of bytes (an ASCII character is its own byte, the one          *)
(* non-ASCII character of the model takes two).                            *)
(***************************************************************************)
EXTENDS Integers, Sequences, FiniteSets, TLC

\* ------------------------------------------------------------------ bounds

\* The longest model stream: chunks one turn's stream yields before it ends.
MaxFragments == 2

\* The longest response body the decoder specification feeds the client, in
\* message chunks.
MaxPeerFrames == 2

\* The most bytes one read hands over, unless it hands over all that is left.
MaxRead == 4

\* How many times the chat page's form is submitted.
MaxSubmits == 3

\* How many calls a caller makes to the chromaClient.js helpers.
MaxCalls == 3

\* How many times the WebSocket clients connect, all together.
MaxConnects == 2

\* How many chat messages the WebSocket clients emit, all together.
MaxSent == 2

\* --------------------------------------------------------------- characters

QUOTE == "\""
BSL == "\\"
LF == "\n"
\* U+00E9, the model's one character outside ASCII.
EAcute == "U+00E9"
\* U+FFFD, what TextDecoder emits for a malformed byte sequence.
Replacement == "U+FFFD"

RECURSIVE Concat(_)
\* Array.prototype.join('') / repeated +=: the texts of a sequence, joined
\* (halved at each step, which keeps the evaluation shallow).
Concat(texts) ==
    IF Len(texts) = 0 THEN <<>>
    ELSE IF Len(texts) = 1 THEN texts[1]
    ELSE LET half == Len(texts) \div 2
         IN  Concat(SubSeq(texts, 1, half))
                 \o Concat(SubSeq(texts, half + 1, Len(texts)))

\* String.prototype.startsWith
StartsWith(text, prefix) ==
    /\ Len(text) >= Len(prefix)
    /\ SubSeq(text, 1, Len(prefix)) = prefix

\* String.prototype.substring(from) with a 0-based index.
Substring(text, from) == SubSeq(text, from + 1, Len(text))

\* Where text holds a frame boundary, a double newline (1-based).
Boundaries(text) ==
    {i \in 1..(Len(text) - 1) : text[i] = LF /\ text[i + 1] = LF}

\* String.prototype.indexOf('\n\n'): the 0-based index of the first double
\* newline of text, or -1.
IndexOfBoundary(text) ==
    LET found == Boundaries(text)
    IN  IF found = {} THEN -1
        ELSE (CHOOSE i \in found : \A j \in found : i <= j) - 1

\* -------------------------------------------------------------------- JSON

\* EscapeChar with the newline left as it is.
EscapeCharKeepsNewline(c) ==
    CASE c = QUOTE -> <<BSL, QUOTE>>
      [] c = BSL -> <<BSL, BSL>>
      [] OTHER -> <<c>>

\* JSON.stringify's escape of one character of a string value.
EscapeChar(c) ==
    CASE c = QUOTE -> <<BSL, QUOTE>>
      [] c = BSL -> <<BSL, BSL>>
      [] c = LF -> <<BSL, "n">>
      [] OTHER -> <<c>>

EscapeString(s) == Concat([i \in 1..Len(s) |-> EscapeChar(s[i])])

\* JSON.stringify("..."): a quoted, escaped string.
JsonString(s) == <<QUOTE>> \o EscapeString(s) \o <<QUOTE>>

\* JSON.stringify({ key: value }) for an object of one string-valued key.
JsonStringify(key, value) ==
    <<"{">> \o JsonString(key) \o <<":">> \o JsonString(value) \o <<"}">>

\* The result of a failed parse (JSON.parse throws SyntaxError).
ParseError == [ok |-> FALSE, key |-> <<>>, value |-> <<>>]

RECURSIVE ParseStringBody(_, _, _)
\* The string whose opening quote precedes text[i]: characters up to the
\* closing quote, escapes undone. A raw control character (a newline) or an
\* unterminated string is a syntax error.
ParseStringBody(text, i, acc) ==
    IF i > Len(text) THEN [ok |-> FALSE, value |-> <<>>, next |-> i]
    ELSE IF text[i] = QUOTE THEN [ok |-> TRUE, value |-> acc, next |-> i + 1]
    ELSE IF text[i] = LF THEN [ok |-> FALSE, value |-> <<>>, next |-> i]
    ELSE IF text[i] = BSL THEN
        IF i + 1 > Len(text) THEN [ok |-> FALSE, value |-> <<>>, next |-> i]
        ELSE IF text[i + 1] = "n" THEN ParseStringBody(text, i + 2, Append(acc, LF))
        ELSE IF text[i + 1] \in {QUOTE, BSL}
             THEN ParseStringBody(text, i + 2, Append(acc, text[i + 1]))
        ELSE [ok |-> FALSE, value |-> <<>>, next |-> i]
    ELSE ParseStringBody(text, i + 1, Append(acc, text[i]))

\* A JSON string starting at text[i].
ParseString(text, i) ==
    IF i <= Len(text) /\ text[i] = QUOTE
    THEN ParseStringBody(text, i + 1, <<>>)
    ELSE [ok |-> FALSE, value |-> <<>>, next |-> i]

\* JSON.parse on the payloads of this protocol: an object of one
\* string-valued key, {"key":"value"}; anything else the model feeds it is
\* not JSON and is a syntax error.
JsonParse(text) ==
    IF ~(Len(text) >= 1 /\ text[1] = "{") THEN ParseError
    ELSE LET k == ParseString(text, 2) IN
         IF ~k.ok \/ ~(k.next <= Len(text) /\ text[k.next] = ":") THEN ParseError
         ELSE LET v == ParseString(text, k.next + 1) IN
              IF v.ok /\ v.next = Len(text) /\ text[v.next] = "}"
              THEN [ok |-> TRUE, key |-> k.value, value |-> v.value]
              ELSE ParseError

\* ------------------------------------------------------------------- UTF-8

\* The UTF-8 bytes of one character, as res.write(string) encodes it.
Utf8Char(c) == IF c = EAcute THEN <<"C3", "A9">> ELSE <<c>>

Utf8Encode(text) == Concat([i \in 1..Len(text) |-> Utf8Char(text[i])])

\* What a streaming TextDecoder emits for a byte that does not follow a held
\* lead byte: a lead byte is held back, a stray continuation byte is
\* malformed, an ASCII byte is its character.
Utf8Plain(b) ==
    IF b = "C3" THEN <<>>
    ELSE IF b = "A9" THEN <<Replacement>>
    ELSE <<b>>

\* What the decoder emits on reading bytes[i], given the lead byte it held
\* when the call began: a held lead byte is completed by its continuation
\* byte, and is malformed before any other byte.
Utf8Emit(bytes, held, i) ==
    LET b == bytes[i]
        afterLead == IF i = 1 THEN held # <<>> ELSE bytes[i - 1] = "C3"
    IN  IF afterLead
        THEN IF b = "A9" THEN <<EAcute>> ELSE <<Replacement>> \o Utf8Plain(b)
        ELSE Utf8Plain(b)

\* TextDecoder.decode(value, { stream: true }): the characters of bytes,
\* given the lead byte the decoder holds from the previous call; returns the
\* text and the lead byte it holds back in turn.
Utf8Decode(bytes, held) ==
    [text |-> Concat([i \in 1..Len(bytes) |-> Utf8Emit(bytes, held, i)]),
     pending |-> IF bytes = <<>> THEN held
                 ELSE IF bytes[Len(bytes)] = "C3" THEN <<"C3">>
                 ELSE <<>>]

\* ---------------------------------------------------------- wire protocol

\* The SSE data marker, "data: ".
DataMarker == <<"d", "a", "t", "a", ":", " ">>

ContentKey == <<"c", "o", "n", "t", "e", "n", "t">>
EventKey == <<"e", "v", "e", "n", "t">>
EndValue == <<"e", "n", "d">>
ErrorKey == <<"e", "r", "r", "o", "r">>

\* 'Failed to get response from AI'
ServerErrorText ==
    <<"F", "a", "i", "l", "e", "d", " ", "t", "o", " ", "g", "e", "t", " ",
      "r", "e", "s", "p", "o", "n", "s", "e", " ", "f", "r", "o", "m", " ",
      "A", "I">>

\* `data: ${json}\n\n`
SseMessage(json) == DataMarker \o json \o <<LF, LF>>

\* `data: ${JSON.stringify({ content: content })}\n\n`
ContentMessage(content) == SseMessage(JsonStringify(ContentKey, content))

\* `data: ${JSON.stringify({ event: 'end' })}\n\n`
EndMessage == SseMessage(JsonStringify(EventKey, EndValue))

\* `data: ${JSON.stringify({ error: 'Failed to get response from AI' })}\n\n`
ErrorMessage == SseMessage(JsonStringify(ErrorKey, ServerErrorText))


\* ---------------------------------------------------------------- inputs

\* 'hi', the user's message of the turn.
UserText == <<"h", "i">>

\* What the model stream may yield as chunk.content: the fragments of the
\* relay scenario, an empty chunk, and a fragment of characters that JSON
\* escapes (quote, backslash, a double newline) or UTF-8 encodes in two bytes.
Fragments ==
    { <<>>, <<"H", "e", "l">>, <<"l", "o">>, <<QUOTE, BSL, LF, LF, EAcute>> }

\* req.body of a POST to /chat: the message field absent, empty, or a text.
Bodies ==
    { [present |-> FALSE, text |-> <<>>],
      [present |-> TRUE, text |-> <<>>],
      [present |-> TRUE, text |-> UserText] }

\* What the user may have typed into #message-input on submit.
Inputs == { <<>>, <<" ">>, <<" ">> \o UserText \o <<" ">>, UserText }

NoRequest == [from |-> "none", message |-> [present |-> FALSE, text |-> <<>>]]

RECURSIVE TrimStart(_)
TrimStart(text) ==
    IF text # <<>> /\ Head(text) = " " THEN TrimStart(Tail(text)) ELSE text

RECURSIVE TrimEnd(_)
TrimEnd(text) ==
    IF text # <<>> /\ text[Len(text)] = " "
    THEN TrimEnd(SubSeq(text, 1, Len(text) - 1))
    ELSE text

\* Trim that returns its text as it is.
TrimNothing(text) == text

\* String.prototype.trim
Trim(text) == TrimEnd(TrimStart(text))

MessageKey == <<"m", "e", "s", "s", "a", "g", "e">>

\* body: JSON.stringify({ message: userMessage })
PostBody(userMessage) == JsonStringify(MessageKey, userMessage)

\* req.body.message, of the body express.json() has parsed.
BodyMessage(body) ==
    LET data == JsonParse(body)
    IN  IF data.ok /\ data.key = MessageKey
        THEN [present |-> TRUE, text |-> data.value]
        ELSE [present |-> FALSE, text |-> <<>>]

\* ------------------------------------------------------------------ state

VARIABLES
    \* the HTTP request in flight: who sent it and its body's message
    request,
    \* the /chat handler's position: idle, calling, streaming, closed
    spc,
    \* the response's status code, 0 until the head is sent
    status,
    \* whether the text/event-stream headers were set and flushed
    sseHeaders,
    \* calls of chat.stream
    modelCalls,
    \* the handler's fullResponse accumulator
    fullResponse,
    \* the strings given to res.write, in the order of the calls
    written,
    \* the bytes of the response body, in the order they were sent
    wire,
    \* the chunk.content values the model stream has yielded, in order
    produced,
    \* for each yielded chunk, the number of res.write calls made before it
    \* was taken from the stream
    takenLog,
    \* how the stream finished: none, end, error
    streamOutcome,
    \* calls that finish the response (res.end, res.json)
    endCalls,
    \* the submit handler's position: idle, fetching, reading, done, caught
    cpc,
    \* calls of fetch('/chat')
    fetchCount,
    \* bytes of the response body the reader has handed to the client
    delivered,
    \* the handler's locals and the placeholder it updates:
    \*   pending        the lead byte the TextDecoder holds between reads
    \*   buffer, currentAiText
    \*   aiHtml         aiMessageDiv.innerHTML
    \*   aiError        aiMessageDiv's error styling (colour, error-message)
    \*   dispatched     the message chunks the loop has handled, in order:
    \*                  what each was taken for, and currentAiText and the
    \*                  placeholder after it
    client,
    \* aiMessageDiv's loading class
    aiLoading,
    \* messageInput.disabled and sendButton.disabled
    inputDisabled,
    \* the bodies the submit handler has given to fetch, in order, each with
    \* the value of #message-input it was made from
    posts,
    \* the JavaScript variables of the server, by scope and name
    heap,
    \* which /chat invocation has read or written which of them
    touched,
    \* the /chat invocations of the server, each with its response
    turns,
    \* which RAG script runs: file-output-rag.js, index.js, or runBasicRAG
    script,
    \* the script's position: load, split, index, search, generate, done
    rpc,
    \* docs, the documents the loader returned
    docs,
    \* splitDocs, the chunks of the loaded documents
    splitDocs,
    \* the pageContent of the vector store's entries, in insertion order
    vectorStore,
    \* the number of the query being processed, from 1
    queryNo,
    \* relevantDocs, the result of the current query's similarity search
    relevantDocs,
    \* what the script has done so far, in order
    ragLog,
    \* the chat page over several submits: its controls and its handlers
    page,
    \* a caller of the chromaClient.js helpers and the calls they made
    chroma,
    \* the WebSocket chat: its server, its clients and the events in flight
    ws

serverVars ==
    <<request, spc, status, sseHeaders, modelCalls, fullResponse, written,
      wire, produced, takenLog, streamOutcome, endCalls>>

clientVars ==
    <<cpc, fetchCount, delivered, client, aiLoading, inputDisabled, posts>>

\* The /chat handler invoked several times over.
turnVars == <<heap, touched, turns>>

\* A run of a RAG script.
ragVars ==
    <<script, rpc, docs, splitDocs, vectorStore, queryNo, relevantDocs,
      ragLog>>

\* What the relay of one turn leaves alone.
beyondRelay == <<turnVars, ragVars, page, chroma, ws>>

\* What no RAG script is running looks like.
RagIdle ==
    /\ script = "none"
    /\ rpc = "idle"
    /\ docs = <<>>
    /\ splitDocs = <<>>
    /\ vectorStore = <<>>
    /\ queryNo = 0
    /\ relevantDocs = <<>>
    /\ ragLog = <<>>

vars == <<serverVars, clientVars, beyondRelay>>

\* ------------------------------------------------- server: POST /chat

\* IsFalsy that looks only for a missing message field.
IsMissing(message) == ~message.present

\* !userMessage: the message is absent or the empty string.
IsFalsy(message) == ~message.present \/ message.text = <<>>

\* ResWrite with the string put before the strings already written.
ResWriteFirst(out, message) == <<message>> \o out

\* res.write(message): the string joins the strings already written, after
\* them.
ResWrite(out, message) == Append(out, message)

\* The response body after res.write(message): its UTF-8 bytes follow the
\* bytes already sent.
Sent(bytes, message) == bytes \o Utf8Encode(message)

\* RelaysChunk that relays every chunk of the stream.
RelaysEveryChunk(content) == TRUE

\* if (chunk.content): whether the handler relays the chunk.
RelaysChunk(content) == content # <<>>

\* Some HTTP client other than the page posts a body to /chat.
RawPost(body) ==
    /\ request = NoRequest
    /\ cpc = "idle"
    /\ request' = [from |-> "raw", message |-> body]
    /\ UNCHANGED <<spc, status, sseHeaders, modelCalls, fullResponse, written,
                   wire, produced, takenLog, streamOutcome, endCalls>>
    /\ UNCHANGED <<clientVars, beyondRelay>>

\* if (!userMessage) return res.status(400).json(...)
ServerReject ==
    /\ spc = "idle"
    /\ request # NoRequest
    /\ IsFalsy(request.message)
    /\ status' = 400
    /\ endCalls' = endCalls + 1
    /\ spc' = "closed"
    /\ UNCHANGED <<request, sseHeaders, modelCalls, fullResponse, written,
                   wire, produced, takenLog, streamOutcome>>
    /\ UNCHANGED <<clientVars, beyondRelay>>

\* The SSE headers are set and flushed, fullResponse is initialised and
\* chat.stream(messages) is called; the handler awaits its result.
ServerAccept ==
    /\ spc = "idle"
    /\ request # NoRequest
    /\ ~IsFalsy(request.message)
    /\ status' = 200
    /\ sseHeaders' = TRUE
    /\ fullResponse' = <<>>
    /\ modelCalls' = modelCalls + 1
    /\ spc' = "calling"
    /\ UNCHANGED <<request, written, wire, produced, takenLog, streamOutcome,
                   endCalls>>
    /\ UNCHANGED <<clientVars, beyondRelay>>

\* await chat.stream(messages) resolves with the stream.
StreamOpens ==
    /\ spc = "calling"
    /\ spc' = "streaming"
    /\ UNCHANGED <<request, status, sseHeaders, modelCalls, fullResponse,
                   written, wire, produced, takenLog, streamOutcome, endCalls>>
    /\ UNCHANGED <<clientVars, beyondRelay>>

\* CatchAndEnd without the finally block: the response is left open.
CatchWithoutEnd ==
    /\ written' = ResWrite(written, ErrorMessage)
    /\ wire' = Sent(wire, ErrorMessage)
    /\ streamOutcome' = "error"
    /\ endCalls' = endCalls
    /\ spc' = "closed"

\* CatchAndEnd with the end frame written in the finally block, after the
\* error frame.
CatchAndEndWithEndFrame ==
    /\ written' = ResWrite(ResWrite(written, ErrorMessage), EndMessage)
    /\ wire' = Sent(Sent(wire, ErrorMessage), EndMessage)
    /\ streamOutcome' = "error"
    /\ endCalls' = endCalls + 1
    /\ spc' = "closed"

\* The catch block and the finally block: the error frame, then res.end().
CatchAndEnd ==
    /\ written' = ResWrite(written, ErrorMessage)
    /\ wire' = Sent(wire, ErrorMessage)
    /\ streamOutcome' = "error"
    /\ endCalls' = endCalls + 1
    /\ spc' = "closed"

\* await chat.stream(messages) rejects: no chunk was produced.
StreamCallFails ==
    /\ spc = "calling"
    /\ CatchAndEnd
    /\ UNCHANGED <<request, status, sseHeaders, modelCalls, fullResponse,
                   produced, takenLog>>
    /\ UNCHANGED <<clientVars, beyondRelay>>

\* One pass of `for await (const chunk of stream)`: the stream yields a
\* chunk; a chunk with content is accumulated, framed and written.
StreamYields(content) ==
    /\ spc = "streaming"
    /\ Len(produced) < MaxFragments
    /\ produced' = Append(produced, content)
    /\ takenLog' = Append(takenLog, Len(written))
    /\ IF RelaysChunk(content)
       THEN /\ fullResponse' = fullResponse \o content
            /\ written' = ResWrite(written, ContentMessage(content))
            /\ wire' = Sent(wire, ContentMessage(content))
       ELSE UNCHANGED <<fullResponse, written, wire>>
    /\ UNCHANGED <<request, spc, status, sseHeaders, modelCalls,
                   streamOutcome, endCalls>>
    /\ UNCHANGED <<clientVars, beyondRelay>>

\* The stream is exhausted: the end frame, then the finally block's res.end().
StreamEnds ==
    /\ spc = "streaming"
    /\ written' = ResWrite(written, EndMessage)
    /\ wire' = Sent(wire, EndMessage)
    /\ streamOutcome' = "end"
    /\ endCalls' = endCalls + 1
    /\ spc' = "closed"
    /\ UNCHANGED <<request, status, sseHeaders, modelCalls, fullResponse,
                   produced, takenLog>>
    /\ UNCHANGED <<clientVars, beyondRelay>>

\* The stream raises while the loop awaits its next chunk.
StreamRaises ==
    /\ spc = "streaming"
    /\ CatchAndEnd
    /\ UNCHANGED <<request, status, sseHeaders, modelCalls, fullResponse,
                   produced, takenLog>>
    /\ UNCHANGED <<clientVars, beyondRelay>>

\* ------------------------------------------- client: the submit handler

\* "Error: ", the prefix of a displayed server error.
ErrorPrefix == <<"E", "r", "r", "o", "r", ":", " ">>

\* 'Error connecting to the server or processing the stream.'
ConnectErrorText ==
    <<"E", "r", "r", "o", "r", " ", "c", "o", "n", "n", "e", "c", "t", "i",
      "n", "g", " ", "t", "o", " ", "t", "h", "e", " ", "s", "e", "r", "v",
      "e", "r", " ", "o", "r", " ", "p", "r", "o", "c", "e", "s", "s", "i",
      "n", "g", " ", "t", "h", "e", " ", "s", "t", "r", "e", "a", "m", ".">>

\* The read loop's record of one handled message chunk.
Dispatch(st, kind) ==
    [st EXCEPT !.dispatched =
        Append(@, [kind |-> kind, text |-> st.currentAiText,
                   html |-> st.aiHtml, failed |-> st.aiError])]

\* if (data.content): the text is appended and shown.
OnContent(st, data) ==
    Dispatch([st EXCEPT !.currentAiText = @ \o data.value,
                        !.aiHtml = st.currentAiText \o data.value],
             "content")

\* else if (data.event === 'end'): nothing is done.
OnEnd(st) == Dispatch(st, "end")

\* OnError that handles the error frame as the end of the stream.
OnErrorAsEnd(st, data) == Dispatch(st, "end")

\* else if (data.error): the div shows the error, styled as one.
OnError(st, data) ==
    Dispatch([st EXCEPT !.aiHtml = ErrorPrefix \o data.value, !.aiError = TRUE],
             "error")

\* OnParseError with the rest of the buffer thrown away with the bad chunk.
OnParseErrorResets(st) == [Dispatch(st, "malformed") EXCEPT !.buffer = <<>>]

\* catch (e) around JSON.parse: the chunk is logged and skipped.
OnParseError(st) == Dispatch(st, "malformed")

\* The if / else-if chain over the parsed payload.
HandleData(st, data) ==
    IF data.key = ContentKey /\ data.value # <<>> THEN OnContent(st, data)
    ELSE IF data.key = EventKey /\ data.value = EndValue THEN OnEnd(st)
    ELSE IF data.key = ErrorKey /\ data.value # <<>> THEN OnError(st, data)
    ELSE Dispatch(st, "ignored")

\* The payload of a data line, parsed and handled.
HandlePayload(st, data) ==
    IF data.ok THEN HandleData(st, data) ELSE OnParseError(st)

\* One message chunk: a data line is parsed and handled, any other is ignored.
HandleChunk(st, messageChunk) ==
    IF StartsWith(messageChunk, DataMarker)
    THEN HandlePayload(st, JsonParse(Substring(messageChunk, 6)))
    ELSE Dispatch(st, "nondata")

\* Remainder with the buffer emptied once a chunk was cut off it.
RemainderDropped(buf, boundary) == <<>>

\* buffer.substring(boundary + 2): what stays in the buffer after a chunk.
Remainder(buf, boundary) == Substring(buf, boundary + 2)

\* The chunk at the head of the buffer is cut off it and handled.
TakeChunk(st, boundary) ==
    HandleChunk([st EXCEPT !.buffer = Remainder(st.buffer, boundary)],
                SubSeq(st.buffer, 1, boundary))

RECURSIVE ProcessFrom(_, _)
ProcessFrom(st, boundary) ==
    IF boundary = -1 THEN st
    ELSE LET next == TakeChunk(st, boundary)
         IN  ProcessFrom(next, IndexOfBoundary(next.buffer))

\* let boundary = buffer.indexOf('\n\n'); while (boundary !== -1) ...:
\* every complete message chunk of the buffer is cut off it and handled; the
\* rest stays for the next read.
ProcessBuffer(st) == ProcessFrom(st, IndexOfBoundary(st.buffer))

\* The buffer and the decoder after buffer += decoder.decode(value, ...).
Buffered(st, decoded) ==
    [st EXCEPT !.buffer = @ \o decoded.text, !.pending = decoded.pending]

\* One pass of the read loop over the bytes of a read.
Receive(st, bytes) ==
    ProcessBuffer(Buffered(st, Utf8Decode(bytes, st.pending)))

\* The handler's locals before a response is read.
FreshClient ==
    [pending |-> <<>>, buffer |-> <<>>, currentAiText |-> <<>>,
     aiHtml |-> <<>>, aiError |-> FALSE, dispatched |-> <<>>]

\* The submit event: an empty trimmed input returns at once; otherwise the
\* controls are disabled, the placeholder is added and fetch is called.
ClientSubmit(input) ==
    /\ cpc = "idle"
    /\ request = NoRequest
    /\ IF Trim(input) = <<>>
       THEN UNCHANGED <<request, cpc, fetchCount, client, aiLoading,
                        inputDisabled, posts>>
       ELSE /\ inputDisabled' = TRUE
            /\ client' = [client EXCEPT !.aiHtml = <<>>]
            /\ aiLoading' = TRUE
            /\ fetchCount' = fetchCount + 1
            /\ posts' = Append(posts, [typed |-> input,
                                       body |-> PostBody(Trim(input))])
            /\ request' = [from |-> "page",
                           message |-> BodyMessage(PostBody(Trim(input)))]
            /\ cpc' = "fetching"
    /\ UNCHANGED <<spc, status, sseHeaders, modelCalls, fullResponse, written,
                   wire, produced, takenLog, streamOutcome, endCalls>>
    /\ UNCHANGED <<delivered, beyondRelay>>

\* The catch block, then the finally block.
CatchAndFinally ==
    /\ client' = [client EXCEPT !.aiHtml = ConnectErrorText, !.aiError = TRUE]
    /\ aiLoading' = FALSE
    /\ inputDisabled' = FALSE
    /\ cpc' = "caught"

\* The finally block after the loop ended without an exception.
Finally ==
    /\ aiLoading' = FALSE
    /\ inputDisabled' = FALSE
    /\ cpc' = "done"

\* response.ok: the status is in the range 200-299.
ResponseOk(code) == code \in 200..299

\* response.body is null for a response with a null body status.
HasBody(code) == code # 204

\* Throws that lets every response through.
ThrowsNever(code) == FALSE

\* if (!response.ok || !response.body) throw ...
Throws(code) == ~ResponseOk(code) \/ ~HasBody(code)

\* await fetch(...) resolves once the response head has arrived: a response
\* that is not OK or has no body throws, otherwise the reader and the
\* accumulators are set up.
FetchResolves ==
    /\ cpc = "fetching"
    /\ status # 0
    /\ IF Throws(status)
       THEN CatchAndFinally
       ELSE /\ client' = [client EXCEPT !.buffer = <<>>, !.currentAiText = <<>>]
            /\ cpc' = "reading"
            /\ UNCHANGED <<aiLoading, inputDisabled>>
    /\ UNCHANGED <<fetchCount, delivered, posts>>
    /\ UNCHANGED <<serverVars, beyondRelay>>

\* await fetch(...) rejects: the network failed before a response arrived.
FetchRejects ==
    /\ cpc = "fetching"
    /\ CatchAndFinally
    /\ UNCHANGED <<fetchCount, delivered, posts>>
    /\ UNCHANGED <<serverVars, beyondRelay>>

\* The sizes of the next read: up to MaxRead of the bytes that have arrived
\* and were not read, or all of them.
ReadSizes ==
    LET left == Len(wire) - delivered
    IN  {n \in 1..left : n <= MaxRead \/ n = left}

\* await reader.read() resolves with the next n bytes of the body: they are
\* decoded, appended to the buffer, and the buffer's chunks are handled.
ClientRead(n) ==
    /\ cpc = "reading"
    /\ n \in ReadSizes
    /\ client' = Receive(client, SubSeq(wire, delivered + 1, delivered + n))
    /\ delivered' = delivered + n
    /\ UNCHANGED <<cpc, fetchCount, aiLoading, inputDisabled, posts>>
    /\ UNCHANGED <<serverVars, beyondRelay>>

\* ClientReadDone that handles what is left in the buffer as a last chunk.
ClientReadDoneFlushes ==
    /\ cpc = "reading"
    /\ endCalls > 0
    /\ delivered = Len(wire)
    /\ Finally
    /\ client' = IF client.buffer = <<>> THEN client
                 ELSE HandleChunk([client EXCEPT !.buffer = <<>>],
                                  client.buffer)
    /\ UNCHANGED <<fetchCount, delivered, posts>>
    /\ UNCHANGED <<serverVars, beyondRelay>>

\* await reader.read() resolves with done: the response was finished and
\* all of its body has been read; the loop breaks.
ClientReadDone ==
    /\ cpc = "reading"
    /\ endCalls > 0
    /\ delivered = Len(wire)
    /\ Finally
    /\ UNCHANGED <<fetchCount, delivered, client, posts>>
    /\ UNCHANGED <<serverVars, beyondRelay>>

\* await reader.read() rejects: the connection was lost mid-stream.
ClientReadFails ==
    /\ cpc = "reading"
    /\ CatchAndFinally
    /\ UNCHANGED <<fetchCount, delivered, posts>>
    /\ UNCHANGED <<serverVars, beyondRelay>>

\* ------------------------------------- server: several /chat invocations

\* The two requests the server handles, each by an invocation of the /chat
\* handler; they may overlap.
Turns == {1, 2}

\* The scope of the declarations at the top of server.js.
ModuleScope == 0

Scopes == {ModuleScope} \cup Turns

\* The variables of server.js the relay reads or writes.
Names == {"characterSystemPrompt", "chat", "userMessage", "fullResponse",
          "messages"}

Locations == Scopes \X Names

\* let characterSystemPrompt, const chat: declared once, at the top.
Module(name) == <<ModuleScope, name>>

\* Local with the handler's variables declared at the top of the file.
LocalAtModuleLevel(t, name) == <<ModuleScope, name>>

\* const userMessage, let fullResponse, const messages: declared in the
\* handler's body, so each invocation has its own.
Local(t, name) == <<t, name>>

\* The character's system prompt, loaded before the server listens.
SystemPromptText == <<"B", "e", " ", "A", "d", "a">>

\* What the user has typed in each of the two turns.
TurnText(t) == IF t = 1 THEN UserText ELSE <<"y", "o">>

\* The message field of the body posted for turn t: empty, or the text.
TurnBodies(t) ==
    { [present |-> TRUE, text |-> <<>>],
      [present |-> TRUE, text |-> TurnText(t)] }

\* What a model stream of these turns may yield as chunk.content.
TurnFragments == { <<>>, <<"H", "e", "l">>, <<"l", "o">> }

SystemMessage(content) == [role |-> "system", content |-> content]
HumanMessage(content) == [role |-> "human", content |-> content]
AIMessage(content) == [role |-> "ai", content |-> content]

\* An invocation and its response before the request has arrived:
\*   pc           idle, calling, streaming, closed
\*   status       the response's status code, 0 until the head is sent
\*   written      the strings given to res.write, in order
\*   produced     the chunk.content values the stream has yielded, in order
\*   outcome      how the turn finished: none, end, callfailed, raised
\*   endCalls     calls that finish the response (res.end, res.json)
\*   connOpen     whether the client's connection is still open
\*   lateRelayed  content frames written after the connection had closed
\*   modelInput   the messages given to chat.stream
\*   earlier      the accepted turns that had finished when this one began
FreshTurn ==
    [pc |-> "idle", status |-> 0, written |-> <<>>, produced |-> <<>>,
     outcome |-> "none", endCalls |-> 0, connOpen |-> TRUE, lateRelayed |-> 0,
     modelInput |-> <<>>, earlier |-> {}]

\* The server is listening and no request has arrived.
TurnsIdle ==
    /\ heap = [l \in Locations |->
                 IF l = Module("characterSystemPrompt")
                 THEN SystemPromptText ELSE <<>>]
    /\ touched = {}
    /\ turns = [t \in Turns |-> FreshTurn]

\* The accesses of invocation t added to the record.
Touch(t, reads, writes) ==
    touched \cup {<<t, "r", l>> : l \in reads} \cup {<<t, "w", l>> : l \in writes}

\* res.write(message) on the response of an invocation.
TurnWrites(tr, message) == [tr EXCEPT !.written = ResWrite(@, message)]

\* finally { res.end() }
TurnFinally(tr) == [tr EXCEPT !.endCalls = @ + 1, !.pc = "closed"]

\* catch (error): the error frame is written; then the finally block.
TurnCatch(tr, outcome) ==
    TurnFinally([TurnWrites(tr, ErrorMessage) EXCEPT !.outcome = outcome])

\* The accepted turns that have finished.
Finished == {e \in Turns : turns[e].pc = "closed" /\ turns[e].status = 200}

\* The request of turn t arrives and the handler runs to its first await:
\* an empty message is rejected with 400; otherwise the head is sent,
\* fullResponse and messages are set up and chat.stream(messages) is called.
TurnStarts(t, message) ==
    /\ turns[t].pc = "idle"
    /\ LET userMessage == Local(t, "userMessage")
           fullResp == Local(t, "fullResponse")
           messages == Local(t, "messages")
           prompt == Module("characterSystemPrompt")
           received == [heap EXCEPT ![userMessage] = message.text]
       IN  IF IsFalsy(message)
           THEN /\ heap' = received
                /\ touched' = Touch(t, {userMessage}, {userMessage})
                /\ turns' = [turns EXCEPT ![t] =
                       [@ EXCEPT !.status = 400, !.endCalls = @ + 1,
                                 !.pc = "closed"]]
           ELSE LET started == [received EXCEPT ![fullResp] = <<>>]
                    built == [started EXCEPT ![messages] =
                                <<SystemMessage(started[prompt]),
                                  HumanMessage(started[userMessage])>>]
                IN  /\ heap' = built
                    /\ touched' = Touch(t,
                           {userMessage, prompt, messages, Module("chat")},
                           {userMessage, fullResp, messages})
                    /\ turns' = [turns EXCEPT ![t] =
                           [@ EXCEPT !.status = 200,
                                     !.modelInput = built[messages],
                                     !.earlier = Finished,
                                     !.pc = "calling"]]
    /\ UNCHANGED <<serverVars, clientVars, ragVars, page, chroma, ws>>

\* await chat.stream(messages) resolves with the stream of turn t.
TurnStreamOpens(t) ==
    /\ turns[t].pc = "calling"
    /\ turns' = [turns EXCEPT ![t] = [@ EXCEPT !.pc = "streaming"]]
    /\ UNCHANGED <<heap, touched, serverVars, clientVars, ragVars, page, chroma, ws>>

\* await chat.stream(messages) rejects.
TurnStreamCallFails(t) ==
    /\ turns[t].pc = "calling"
    /\ turns' = [turns EXCEPT ![t] = TurnCatch(@, "callfailed")]
    /\ UNCHANGED <<heap, touched, serverVars, clientVars, ragVars, page, chroma, ws>>

\* One pass of the for await loop of turn t.
TurnStreamYields(t, content) ==
    /\ turns[t].pc = "streaming"
    /\ Len(turns[t].produced) < MaxFragments
    /\ LET fullResp == Local(t, "fullResponse")
           taken == [turns[t] EXCEPT !.produced = Append(@, content)]
       IN  IF RelaysChunk(content)
           THEN /\ heap' = [heap EXCEPT ![fullResp] = @ \o content]
                /\ touched' = Touch(t, {fullResp}, {fullResp})
                /\ turns' = [turns EXCEPT ![t] =
                       [TurnWrites(taken, ContentMessage(content)) EXCEPT
                           !.lateRelayed =
                               IF taken.connOpen THEN @ ELSE @ + 1]]
           ELSE /\ turns' = [turns EXCEPT ![t] = taken]
                /\ UNCHANGED <<heap, touched>>
    /\ UNCHANGED <<serverVars, clientVars, ragVars, page, chroma, ws>>

\* The stream of turn t is exhausted: the end frame, then the finally block.
TurnStreamEnds(t) ==
    /\ turns[t].pc = "streaming"
    /\ turns' = [turns EXCEPT ![t] =
           TurnFinally([TurnWrites(@, EndMessage) EXCEPT !.outcome = "end"])]
    /\ UNCHANGED <<heap, touched, serverVars, clientVars, ragVars, page, chroma, ws>>

\* The stream of turn t raises while the loop awaits its next chunk.
TurnStreamRaises(t) ==
    /\ turns[t].pc = "streaming"
    /\ turns' = [turns EXCEPT ![t] = TurnCatch(@, "raised")]
    /\ UNCHANGED <<heap, touched, serverVars, clientVars, ragVars, page, chroma, ws>>

\* The client of turn t closes its connection while the handler is awaiting
\* the model; the handler registers no listener for it.
ConnectionCloses(t) ==
    /\ turns[t].pc \in {"calling", "streaming"}
    /\ turns[t].connOpen
    /\ turns' = [turns EXCEPT ![t] = [@ EXCEPT !.connOpen = FALSE]]
    /\ UNCHANGED <<heap, touched, serverVars, clientVars, ragVars, page, chroma, ws>>


\* -------------------------------------------------------- the RAG scripts

\* file-output-rag.js, index.js, and runBasicRAG of the Unit 4 README.
Scripts == {"file-output-rag", "index", "basic-rag"}

\* vectorStore.similaritySearch(query, 2) in processQuery
ProcessQueryK == 2

\* vectorStore.asRetriever({ k: 3 }) in index.js
RetrieverK == 3

\* vectorStore.similaritySearch(query, 2) in runBasicRAG
BasicRagK == 2

TopK(sc) ==
    CASE sc = "file-output-rag" -> ProcessQueryK
      [] sc = "index" -> RetrieverK
      [] sc = "basic-rag" -> BasicRagK

\* The questions of the two demo scripts, in the order they are put.
DemoQueries ==
    << "What is RAG and what are its key components?",
       "What are vector databases and how do they work?",
       "How does embedding generation work in RAG systems?" >>

\* The questions a script puts.
Queries(sc) ==
    IF sc = "basic-rag"
    THEN << "What is RAG and what are its components?" >>
    ELSE DemoQueries

\* The text files ./documents may hold: none, one, or three. Each is shorter
\* than chunkSize.
DocumentSets ==
    { <<>>,
      << <<"r", "a", "g">> >>,
      << <<"r", "a", "g">>, <<"d", "b">>, <<"e", "m", "b">> >> }

\* textSplitter.splitDocuments(docs) on documents shorter than chunkSize:
\* each is one chunk, in the order of the documents.
SplitDocumentsOf(loaded) == loaded

\* What similaritySearch(query, k) may return: k entries of the store, or all
\* of them when it has fewer, in the order the store ranks them.
SearchResults(store, k) ==
    LET n == IF k < Len(store) THEN k ELSE Len(store)
        picks == {f \in [1..n -> 1..Len(store)] :
                     \A i \in 1..n : \A j \in 1..n : f[i] = f[j] => i = j}
    IN  {[i \in 1..n |-> store[f[i]]] : f \in picks}

\* Array.prototype.join
Join(texts, separator) ==
    Concat([i \in 1..Len(texts) |->
               IF i = 1 THEN texts[i] ELSE separator \o texts[i]])

Digit(n) == <<"0", "1", "2", "3", "4", "5", "6", "7", "8", "9">>[n + 1]

RECURSIVE NumberToString(_)
\* The decimal digits of a number, as a template literal prints it.
NumberToString(n) ==
    IF n < 10 THEN <<Digit(n)>>
    ELSE NumberToString(n \div 10) \o <<Digit(n % 10)>>

DocumentWord == <<"D", "o", "c", "u", "m", "e", "n", "t", " ">>

\* `Document ${i+1}:\n${doc.pageContent}`, i counting from 0.
LabelledDocument(pageContent, i) ==
    DocumentWord \o NumberToString(i + 1) \o <<":", LF>> \o pageContent

\* relevantDocs.map((doc, i) => ...).join('\n\n') of processQuery
LabelledContext(found) ==
    Join([i \in 1..Len(found) |-> LabelledDocument(found[i], i - 1)],
         <<LF, LF>>)

\* results.map(doc => doc.pageContent).join('\n\n') of runBasicRAG
PlainContext(found) == Join(found, <<LF, LF>>)

\* retriever.pipe(formatDocumentsAsString) of index.js: the page contents,
\* joined by a blank line.
FormatDocumentsAsString(found) == Join(found, <<LF, LF>>)

\* Context made of the first retrieved chunk alone.
ContextOfFirst(sc, found) ==
    IF found = <<>> THEN <<>> ELSE LabelledDocument(found[1], 0)

\* The context a script puts in its prompt.
Context(sc, found) ==
    CASE sc = "file-output-rag" -> LabelledContext(found)
      [] sc = "index" -> FormatDocumentsAsString(found)
      [] sc = "basic-rag" -> PlainContext(found)

\* An entry of the record of the run: what was done, during which query, and
\* the documents and the context it had.
Event(kind, found, context) ==
    [kind |-> kind, query |-> queryNo, docs |-> found, context |-> context]

\* The steps of ingestion, by the position of the script that takes them.
IngestionSteps == {"load", "split", "index"}

\* OnIngestionError that goes on to the queries.
OnIngestionErrorGoesOn == [rpc |-> "search", queryNo |-> 1]

\* An ingestion step threw: the catch block of runRAGDemo (the .catch of the
\* call, in index.js) logs the error and the run ends.
OnIngestionError == [rpc |-> "done", queryNo |-> queryNo]

\* A query is over: the next one, or the end of the run after the last.
AfterQuery ==
    IF queryNo < Len(Queries(script))
    THEN [rpc |-> "search", queryNo |-> queryNo + 1]
    ELSE [rpc |-> "done", queryNo |-> queryNo]

\* AfterQueryError that ends the run.
AfterQueryErrorEndsRun == [rpc |-> "done", queryNo |-> queryNo]

\* A query threw: the catch block of processQuery (of executeQuery, of
\* runBasicRAG) logs the error, and the script goes on after the query.
AfterQueryError == AfterQuery

\* An ingestion step rejects (loader.load, splitDocuments, or fromDocuments
\* when an embedding call fails): the error is logged and the run goes where
\* the catch leaves it.
IngestionFails(step) ==
    /\ rpc = step
    /\ ragLog' = Append(ragLog, Event("ingestion failed", <<>>, <<>>))
    /\ rpc' = OnIngestionError.rpc
    /\ queryNo' = OnIngestionError.queryNo
    /\ UNCHANGED <<script, docs, splitDocs, vectorStore, relevantDocs>>
    /\ UNCHANGED <<serverVars, clientVars, turnVars, page, chroma, ws>>

\* const docs = await loader.load()
LoadDocuments(loaded) ==
    /\ rpc = "load"
    /\ docs' = loaded
    /\ ragLog' = Append(ragLog, Event("loaded", loaded, <<>>))
    /\ rpc' = "split"
    /\ UNCHANGED <<script, splitDocs, vectorStore, queryNo, relevantDocs>>
    /\ UNCHANGED <<serverVars, clientVars, turnVars, page, chroma, ws>>

\* const splitDocs = await textSplitter.splitDocuments(docs)
SplitDocuments ==
    /\ rpc = "split"
    /\ splitDocs' = SplitDocumentsOf(docs)
    /\ ragLog' = Append(ragLog, Event("split", SplitDocumentsOf(docs), <<>>))
    /\ rpc' = "index"
    /\ UNCHANGED <<script, docs, vectorStore, queryNo, relevantDocs>>
    /\ UNCHANGED <<serverVars, clientVars, turnVars, page, chroma, ws>>

\* const vectorStore = await MemoryVectorStore.fromDocuments(splitDocs,
\* embeddings); the first query follows.
CreateVectorStore ==
    /\ rpc = "index"
    /\ vectorStore' = splitDocs
    /\ ragLog' = Append(ragLog, Event("indexed", splitDocs, <<>>))
    /\ rpc' = "search"
    /\ queryNo' = 1
    /\ UNCHANGED <<script, docs, splitDocs, relevantDocs>>
    /\ UNCHANGED <<serverVars, clientVars, turnVars, page, chroma, ws>>

\* SimilaritySearch that takes what it returns out of the store.
SimilaritySearchConsumes(found) ==
    /\ rpc = "search"
    /\ found \in SearchResults(vectorStore, TopK(script))
    /\ relevantDocs' = found
    /\ vectorStore' = SelectSeq(vectorStore,
           LAMBDA d : \A i \in 1..Len(found) : found[i] # d)
    /\ ragLog' = Append(ragLog, Event("searched", found, <<>>))
    /\ rpc' = "generate"
    /\ UNCHANGED <<script, docs, splitDocs, queryNo>>
    /\ UNCHANGED <<serverVars, clientVars, turnVars, page, chroma, ws>>

\* const relevantDocs = await vectorStore.similaritySearch(query, k)
SimilaritySearch(found) ==
    /\ rpc = "search"
    /\ found \in SearchResults(vectorStore, TopK(script))
    /\ relevantDocs' = found
    /\ ragLog' = Append(ragLog, Event("searched", found, <<>>))
    /\ rpc' = "generate"
    /\ UNCHANGED <<script, docs, splitDocs, vectorStore, queryNo>>
    /\ UNCHANGED <<serverVars, clientVars, turnVars, page, chroma, ws>>

\* similaritySearch rejects: the query could not be embedded.
SimilaritySearchFails ==
    /\ rpc = "search"
    /\ ragLog' = Append(ragLog, Event("search failed", <<>>, <<>>))
    /\ rpc' = AfterQueryError.rpc
    /\ queryNo' = AfterQueryError.queryNo
    /\ UNCHANGED <<script, docs, splitDocs, vectorStore, relevantDocs>>
    /\ UNCHANGED <<serverVars, clientVars, turnVars, page, chroma, ws>>

\* The context and the prompt are built and llm.invoke(prompt) is called and
\* resolves: the answer is logged.
InvokeModel ==
    /\ rpc = "generate"
    /\ ragLog' = ragLog \o
           << Event("invoked", relevantDocs, Context(script, relevantDocs)),
              Event("answered", relevantDocs, <<>>) >>
    /\ rpc' = AfterQuery.rpc
    /\ queryNo' = AfterQuery.queryNo
    /\ UNCHANGED <<script, docs, splitDocs, vectorStore, relevantDocs>>
    /\ UNCHANGED <<serverVars, clientVars, turnVars, page, chroma, ws>>

\* llm.invoke(prompt) is called and rejects.
InvokeModelFails ==
    /\ rpc = "generate"
    /\ ragLog' = ragLog \o
           << Event("invoked", relevantDocs, Context(script, relevantDocs)),
              Event("generation failed", relevantDocs, <<>>) >>
    /\ rpc' = AfterQueryError.rpc
    /\ queryNo' = AfterQueryError.queryNo
    /\ UNCHANGED <<script, docs, splitDocs, vectorStore, relevantDocs>>
    /\ UNCHANGED <<serverVars, clientVars, turnVars, page, chroma, ws>>


\* ------------------------------------------- client: the page over submits

\* The page when its script has run: the controls are enabled and no submit
\* was handled.
FreshPage ==
    [messageInputDisabled |-> FALSE, sendButtonDisabled |-> FALSE,
     handlers |-> <<>>]

\* ControlsDisabled that leaves the controls as they are.
ControlsLeftEnabled(pg) == pg

\* messageInput.disabled = true; sendButton.disabled = true;
ControlsDisabled(pg) ==
    [pg EXCEPT !.messageInputDisabled = TRUE, !.sendButtonDisabled = TRUE]

\* messageInput.disabled = false; sendButton.disabled = false;
ControlsEnabled(pg) ==
    [pg EXCEPT !.messageInputDisabled = FALSE, !.sendButtonDisabled = FALSE]

\* A handler reaches its finally block, through the catch block or not.
HandlerEnds(pg, h, pc, ending) ==
    ControlsEnabled([pg EXCEPT !.handlers[h].pc = pc,
                               !.handlers[h].ending = ending])

\* The form's submit event, which the browser raises from an enabled input
\* (Enter) or an enabled button (click): an empty trimmed input returns at
\* once; otherwise the controls are disabled and fetch is called.
PageSubmit(input) ==
    /\ ~page.messageInputDisabled \/ ~page.sendButtonDisabled
    /\ Len(page.handlers) < MaxSubmits
    /\ page' = IF Trim(input) = <<>>
               THEN page
               ELSE [ControlsDisabled(page) EXCEPT
                        !.handlers =
                            Append(@, [pc |-> "fetching", last |-> "none",
                                       ending |-> "open"])]
    /\ UNCHANGED <<serverVars, clientVars, turnVars, ragVars, chroma, ws>>

\* await fetch(...) resolves: a response that is not OK or has no body
\* throws; otherwise the handler starts to read.
PageFetchResolves(h, ok, body) ==
    /\ h \in DOMAIN page.handlers
    /\ page.handlers[h].pc = "fetching"
    /\ page' = IF ~ok \/ ~body
               THEN HandlerEnds(page, h, "caught",
                                IF ~ok THEN "http error" ELSE "no body")
               ELSE [page EXCEPT !.handlers[h].pc = "reading"]
    /\ UNCHANGED <<serverVars, clientVars, turnVars, ragVars, chroma, ws>>

\* await fetch(...) rejects.
PageFetchRejects(h) ==
    /\ h \in DOMAIN page.handlers
    /\ page.handlers[h].pc = "fetching"
    /\ page' = HandlerEnds(page, h, "caught", "fetch failed")
    /\ UNCHANGED <<serverVars, clientVars, turnVars, ragVars, chroma, ws>>

\* The read loop handles a frame, of content, the end frame or an error
\* frame: the handler goes on reading whatever the frame is.
PageReads(h, kind) ==
    /\ h \in DOMAIN page.handlers
    /\ page.handlers[h].pc = "reading"
    /\ page' = [page EXCEPT !.handlers[h].last = kind]
    /\ UNCHANGED <<serverVars, clientVars, turnVars, ragVars, chroma, ws>>

\* await reader.read() resolves with done: the loop breaks.
PageReadDone(h) ==
    /\ h \in DOMAIN page.handlers
    /\ page.handlers[h].pc = "reading"
    /\ page' = HandlerEnds(page, h, "done", "stream done")
    /\ UNCHANGED <<serverVars, clientVars, turnVars, ragVars, chroma, ws>>

\* await reader.read() rejects.
PageReadFails(h) ==
    /\ h \in DOMAIN page.handlers
    /\ page.handlers[h].pc = "reading"
    /\ page' = HandlerEnds(page, h, "caught", "read failed")
    /\ UNCHANGED <<serverVars, clientVars, turnVars, ragVars, chroma, ws>>


\* ------------------------------------------------- the chromaClient helpers

\* The exported helpers that call the vector store.
Helpers == {"createVectorStore", "getSimilarDocuments", "deleteCollection"}

\* A caller that has called no helper.
FreshCaller == [calls |-> <<>>]

\* A helper just called: createVectorStore and deleteCollection first await
\* createChromaClient; getSimilarDocuments calls similaritySearch at once.
FreshCall(fn) ==
    [fn |-> fn,
     pc |-> IF fn = "getSimilarDocuments" THEN "library" ELSE "client",
     attempts |-> IF fn = "getSimilarDocuments" THEN 1 ELSE 0,
     failed |-> "none",
     logged |-> 0]

\* catch (error) { console.error(...) } of deleteCollection: logged, and the
\* helper returns.
CatchAndReturn(call) ==
    [call EXCEPT !.logged = @ + 1, !.pc = "returned"]

\* CatchAndRethrow that calls the library a second time before it gives up.
CatchAndRetryOnce(call) ==
    IF call.attempts < 2
    THEN [call EXCEPT !.logged = @ + 1, !.attempts = @ + 1]
    ELSE [call EXCEPT !.logged = @ + 1, !.pc = "threw"]

\* catch (error) { console.error(...); throw error; }
CatchAndRethrow(call) ==
    [call EXCEPT !.logged = @ + 1, !.pc = "threw"]

\* A helper is called; getSimilarDocuments is given a vector store, which the
\* caller holds once a createVectorStore has returned one.
HelperCalled(fn) ==
    /\ Len(chroma.calls) < MaxCalls
    /\ fn = "getSimilarDocuments" =>
           \E c \in DOMAIN chroma.calls :
               /\ chroma.calls[c].fn = "createVectorStore"
               /\ chroma.calls[c].pc = "returned"
    /\ chroma' = [chroma EXCEPT !.calls = Append(@, FreshCall(fn))]
    /\ UNCHANGED <<serverVars, clientVars, turnVars, ragVars, page, ws>>

\* await createChromaClient() resolves: the helper calls Chroma.fromDocuments
\* or Chroma.fromExistingCollection.
ChromaClientCreated(c) ==
    /\ c \in DOMAIN chroma.calls
    /\ chroma.calls[c].pc = "client"
    /\ chroma' = [chroma EXCEPT !.calls[c].pc = "library",
                                !.calls[c].attempts = @ + 1]
    /\ UNCHANGED <<serverVars, clientVars, turnVars, ragVars, page, ws>>

\* await createChromaClient() rejects (new OpenAIEmbeddings() threw): in
\* createVectorStore the await is outside the try, in deleteCollection inside.
ChromaClientFails(c) ==
    /\ c \in DOMAIN chroma.calls
    /\ chroma.calls[c].pc = "client"
    /\ chroma' = [chroma EXCEPT !.calls[c] =
           IF @.fn = "deleteCollection"
           THEN CatchAndReturn([@ EXCEPT !.failed = "client"])
           ELSE [@ EXCEPT !.failed = "client", !.pc = "threw"]]
    /\ UNCHANGED <<serverVars, clientVars, turnVars, ragVars, page, ws>>

\* The awaited library call resolves: createVectorStore and
\* getSimilarDocuments return its value, deleteCollection goes on to
\* vectorStore.delete().
LibraryResolves(c) ==
    /\ c \in DOMAIN chroma.calls
    /\ chroma.calls[c].pc = "library"
    /\ chroma' = [chroma EXCEPT !.calls[c].pc =
           IF chroma.calls[c].fn = "deleteCollection"
           THEN "delete" ELSE "returned"]
    /\ UNCHANGED <<serverVars, clientVars, turnVars, ragVars, page, ws>>

\* The awaited library call rejects.
LibraryRejects(c) ==
    /\ c \in DOMAIN chroma.calls
    /\ chroma.calls[c].pc \in {"library", "delete"}
    /\ chroma' = [chroma EXCEPT !.calls[c] =
           IF @.fn = "deleteCollection"
           THEN CatchAndReturn([@ EXCEPT !.failed = "library"])
           ELSE CatchAndRethrow([@ EXCEPT !.failed = "library"])]
    /\ UNCHANGED <<serverVars, clientVars, turnVars, ragVars, page, ws>>

\* await vectorStore.delete() resolves: deleteCollection logs and returns.
DeleteResolves(c) ==
    /\ c \in DOMAIN chroma.calls
    /\ chroma.calls[c].pc = "delete"
    /\ chroma' = [chroma EXCEPT !.calls[c].pc = "returned"]
    /\ UNCHANGED <<serverVars, clientVars, turnVars, ragVars, page, ws>>


\* ------------------------------------------------------- the WebSocket chat

\* The browser pages that open the chat.
ChatClients == {1, 2}

\* The first character of what a client types, different for each client.
ClientLetter(c) == <<"a", "b">>[c]

\* The n-th message a client types.
ChatText(c, n) == <<ClientLetter(c), Digit(n)>>

\* What a client may have in its input when the form is submitted.
ChatInputs(c) == {<<>>} \cup {ChatText(c, n) : n \in 1..MaxSent}

\* What the user answers to prompt(): Cancel (null), or OK with a text.
PromptAnswers ==
    {[cancelled |-> TRUE, text |-> <<>>]} \cup
    {[cancelled |-> FALSE, text |-> t] : t \in {<<>>, <<" ">>, <<"A", "l">>}}

\* Math.random().toString(36).substring(2, 7): empty when the number is 0.
RandomParts == {<<>>, <<"k", "3", "x", "9", "q">>}

\* `User_${...}`
GeneratedName(random) == <<"U", "s", "e", "r", "_">> \o random

\* !username || username.trim() === ''
NoUsername(answer) == answer.cancelled \/ Trim(answer.text) = <<>>

\* username after the first four lines of getUsername().
NewUsername(answer, random) ==
    IF NoUsername(answer) THEN GeneratedName(random) ELSE answer.text

ChatMessage(text) == [name |-> "chat message", data |-> text]

SetUsername(text) == [name |-> "set username", data |-> text]

\* The chat before any client connects: the server has no socket, and each
\* page has run its script.
FreshChat ==
    [sockets |-> {},
     clients |-> [c \in ChatClients |->
         [link |-> "down", connects |-> 0, username |-> <<>>, sent |-> 0,
          outQ |-> <<>>, inQ |-> <<>>, inbox |-> <<>>]]]

\* MayEmit that looks at the input only.
MayEmitWithInput(value, username) == value # <<>>

\* if (input.value && username)
MayEmit(value, username) == value # <<>> /\ username # <<>>

\* socket.broadcast.emit: every connected socket but the sender's.
SocketBroadcastEmit(sockets, sender) == sockets \ {sender}

\* io.emit: every connected socket.
IoEmit(sockets, sender) == sockets

\* io.on('connection', ...): the server has a socket for the client.
SocketConnects(c) ==
    /\ ws.clients[c].link = "down"
    /\ ws.clients[1].connects + ws.clients[2].connects < MaxConnects
    /\ ws' = [ws EXCEPT !.sockets = @ \cup {c},
                        !.clients[c].link = "handshake"]
    /\ UNCHANGED <<serverVars, clientVars, turnVars, ragVars, page, chroma>>

\* socket.on('connect', ...): getUsername() prompts, falls back on a
\* generated name and emits 'set username'.
OnConnect(c, answer, random) ==
    /\ ws.clients[c].link = "handshake"
    /\ ws' = [ws EXCEPT !.clients[c] =
           [@ EXCEPT !.link = "up",
                     !.connects = @ + 1,
                     !.username = NewUsername(answer, random),
                     !.outQ = Append(@, SetUsername(NewUsername(answer, random)))]]
    /\ UNCHANGED <<serverVars, clientVars, turnVars, ragVars, page, chroma>>

\* The connection is lost: the server forgets the socket, and the events in
\* flight on it are lost with it.
Disconnects(c) ==
    /\ c \in ws.sockets
    /\ ws' = [ws EXCEPT !.sockets = @ \ {c},
                        !.clients[c].link = "down",
                        !.clients[c].outQ = <<>>,
                        !.clients[c].inQ = <<>>]
    /\ UNCHANGED <<serverVars, clientVars, turnVars, ragVars, page, chroma>>

\* The form's submit event with value in the input: the value is emitted and
\* the input cleared, or nothing is done. An event emitted while the socket is
\* down waits for the next connect.
Submits(c, value) ==
    /\ ws.clients[1].sent + ws.clients[2].sent < MaxSent
    /\ value \in {<<>>, ChatText(c, ws.clients[c].sent + 1)}
    /\ ws' = IF MayEmit(value, ws.clients[c].username)
             THEN [ws EXCEPT
                      !.clients[c].outQ = Append(@, ChatMessage(value)),
                      !.clients[c].sent = @ + 1]
             ELSE ws
    /\ UNCHANGED <<serverVars, clientVars, turnVars, ragVars, page, chroma>>

\* The server receives the next event of a socket: a 'chat message' is emitted
\* to the connected sockets; no listener is registered for any other event.
ServerReceives(c) ==
    /\ c \in ws.sockets
    /\ ws.clients[c].link = "up"
    /\ ws.clients[c].outQ # <<>>
    /\ LET event == Head(ws.clients[c].outQ)
           to == IF event.name = "chat message"
                 THEN IoEmit(ws.sockets, c) ELSE {}
       IN  ws' = [ws EXCEPT !.clients =
               [d \in ChatClients |->
                   [@[d] EXCEPT
                       !.outQ = IF d = c THEN Tail(@) ELSE @,
                       !.inQ = IF d \in to
                               THEN Append(@, ChatMessage(event.data))
                               ELSE @]]]
    /\ UNCHANGED <<serverVars, clientVars, turnVars, ragVars, page, chroma>>

\* socket.on('chat message', ...) of the page: the event is displayed.
ClientReceives(c) ==
    /\ ws.clients[c].link = "up"
    /\ ws.clients[c].inQ # <<>>
    /\ ws' = [ws EXCEPT !.clients[c].inbox = Append(@, Head(ws.clients[c].inQ).data),
                        !.clients[c].inQ = Tail(@)]
    /\ UNCHANGED <<serverVars, clientVars, turnVars, ragVars, page, chroma>>


\* ---------------------------------------------------------- specifications

\* The chat page, the chromaClient caller and the WebSocket chat before any
\* of them has acted.
DemosIdle ==
    /\ page = FreshPage
    /\ chroma = FreshCaller
    /\ ws = FreshChat

Init ==
    /\ request = NoRequest
    /\ spc = "idle"
    /\ status = 0
    /\ sseHeaders = FALSE
    /\ modelCalls = 0
    /\ fullResponse = <<>>
    /\ written = <<>>
    /\ wire = <<>>
    /\ produced = <<>>
    /\ takenLog = <<>>
    /\ streamOutcome = "none"
    /\ endCalls = 0
    /\ cpc = "idle"
    /\ fetchCount = 0
    /\ delivered = 0
    /\ client = FreshClient
    /\ aiLoading = FALSE
    /\ inputDisabled = FALSE
    /\ posts = <<>>
    /\ TurnsIdle
    /\ RagIdle
    /\ DemosIdle

Next ==
    \/ \E input \in Inputs : ClientSubmit(input)
    \/ \E body \in Bodies : RawPost(body)
    \/ ServerReject
    \/ ServerAccept
    \/ StreamOpens
    \/ StreamCallFails
    \/ \E content \in Fragments : StreamYields(content)
    \/ StreamEnds
    \/ StreamRaises
    \/ FetchResolves
    \/ FetchRejects
    \/ \E n \in ReadSizes : ClientRead(n)
    \/ ClientReadDone
    \/ ClientReadFails

\* One turn of the chat: the page's client or another HTTP client posts to
\* /chat, the handler relays the model stream, the page's client reads it.
Spec == Init /\ [][Next]_vars

\* The continuation of the handler runs once what it awaits has settled.
HandlerProgress ==
    \/ StreamOpens
    \/ StreamCallFails
    \/ \E content \in Fragments : StreamYields(content)
    \/ StreamEnds
    \/ StreamRaises

\* What the server sees of a turn: a request arrives and is handled.
NextHandler ==
    \/ \E input \in Inputs : ClientSubmit(input)
    \/ \E body \in Bodies : RawPost(body)
    \/ ServerReject
    \/ ServerAccept
    \/ StreamOpens
    \/ StreamCallFails
    \/ \E content \in Fragments : StreamYields(content)
    \/ StreamEnds
    \/ StreamRaises

\* The handler's side of a turn with a model stream that settles: the event
\* loop runs the continuation of an await once its promise has settled, and
\* a finite stream yields, ends or raises.
SpecHandlerLive == Init /\ [][NextHandler]_vars /\ WF_vars(HandlerProgress)


\* data: {"error":"x"}, an error frame with a short message.
PeerError == SseMessage(JsonStringify(ErrorKey, <<"x">>))

\* data: {oops, a data line whose payload is not JSON.
PeerMalformed == SseMessage(<<"{", "o", "o", "p", "s">>)

\* ": ping", an SSE comment line.
PeerComment == <<":", " ", "p", "i", "n", "g", LF, LF>>

\* data: {"content":"lo"} with no boundary after it: a frame cut off.
PeerTruncated == DataMarker \o JsonStringify(ContentKey, <<"l", "o">>)

\* What a peer of the client (a server, a proxy) may put in a response body,
\* chunk by chunk: content, the end and an error frame, a data line that is
\* not JSON, a comment line, and a frame cut off before its boundary.
PeerMessages ==
    { ContentMessage(<<"H", "e", "l">>),
      ContentMessage(<<EAcute, LF>>),
      EndMessage,
      PeerError,
      PeerMalformed,
      PeerComment,
      PeerTruncated }

\* The response bodies of at most MaxPeerFrames such chunks.
PeerBodies ==
    UNION {[1..n -> PeerMessages] : n \in 0..MaxPeerFrames}

\* The client has posted a message and a peer has written the whole response:
\* OK, No Content or Bad Request, with any of the bodies if the status allows
\* a body.
InitDecoder ==
    /\ request = [from |-> "page",
                  message |-> [present |-> TRUE, text |-> UserText]]
    /\ spc = "closed"
    /\ status \in {200, 204, 400}
    /\ sseHeaders = (status = 200)
    /\ modelCalls = 0
    /\ fullResponse = <<>>
    /\ written \in PeerBodies
    /\ ~HasBody(status) => written = <<>>
    /\ wire = Utf8Encode(Concat(written))
    /\ produced = <<>>
    /\ takenLog = <<>>
    /\ streamOutcome = "none"
    /\ endCalls = 1
    /\ cpc = "fetching"
    /\ fetchCount = 1
    /\ delivered = 0
    /\ client = FreshClient
    /\ aiLoading = TRUE
    /\ inputDisabled = TRUE
    /\ posts = <<[typed |-> UserText, body |-> PostBody(UserText)]>>
    /\ TurnsIdle
    /\ RagIdle
    /\ DemosIdle

NextDecoder ==
    \/ FetchResolves
    \/ \E n \in ReadSizes : ClientRead(n)
    \/ ClientReadDone
    \/ ClientReadFails

\* The client's read loop over any response body, however it is cut into
\* reads.
SpecDecoder == InitDecoder /\ [][NextDecoder]_vars


InitTurns ==
    /\ request = NoRequest
    /\ spc = "idle"
    /\ status = 0
    /\ sseHeaders = FALSE
    /\ modelCalls = 0
    /\ fullResponse = <<>>
    /\ written = <<>>
    /\ wire = <<>>
    /\ produced = <<>>
    /\ takenLog = <<>>
    /\ streamOutcome = "none"
    /\ endCalls = 0
    /\ cpc = "idle"
    /\ fetchCount = 0
    /\ delivered = 0
    /\ client = FreshClient
    /\ aiLoading = FALSE
    /\ inputDisabled = FALSE
    /\ posts = <<>>
    /\ TurnsIdle
    /\ RagIdle
    /\ DemosIdle

NextTurns ==
    \/ \E t \in Turns : \E message \in TurnBodies(t) : TurnStarts(t, message)
    \/ \E t \in Turns : TurnStreamOpens(t)
    \/ \E t \in Turns : TurnStreamCallFails(t)
    \/ \E t \in Turns : \E content \in TurnFragments : TurnStreamYields(t, content)
    \/ \E t \in Turns : TurnStreamEnds(t)
    \/ \E t \in Turns : TurnStreamRaises(t)
    \/ \E t \in Turns : ConnectionCloses(t)

\* Two requests to /chat, their handlers interleaved at every await.
SpecTurns == InitTurns /\ [][NextTurns]_vars


InitRag ==
    /\ request = NoRequest
    /\ spc = "idle"
    /\ status = 0
    /\ sseHeaders = FALSE
    /\ modelCalls = 0
    /\ fullResponse = <<>>
    /\ written = <<>>
    /\ wire = <<>>
    /\ produced = <<>>
    /\ takenLog = <<>>
    /\ streamOutcome = "none"
    /\ endCalls = 0
    /\ cpc = "idle"
    /\ fetchCount = 0
    /\ delivered = 0
    /\ client = FreshClient
    /\ aiLoading = FALSE
    /\ inputDisabled = FALSE
    /\ posts = <<>>
    /\ TurnsIdle
    /\ script \in Scripts
    /\ rpc = "load"
    /\ docs = <<>>
    /\ splitDocs = <<>>
    /\ vectorStore = <<>>
    /\ queryNo = 0
    /\ relevantDocs = <<>>
    /\ ragLog = <<>>
    /\ DemosIdle

NextRag ==
    \/ \E loaded \in DocumentSets : LoadDocuments(loaded)
    \/ \E step \in IngestionSteps : IngestionFails(step)
    \/ SplitDocuments
    \/ CreateVectorStore
    \/ \E found \in SearchResults(vectorStore, TopK(script)) :
           SimilaritySearch(found)
    \/ SimilaritySearchFails
    \/ InvokeModel
    \/ InvokeModelFails

\* One run of a RAG script: ingestion, then its queries one after the other.
SpecRag == InitRag /\ [][NextRag]_vars


NextPage ==
    \/ \E input \in Inputs : PageSubmit(input)
    \/ \E h \in 1..MaxSubmits : \E ok \in BOOLEAN : \E body \in BOOLEAN :
           PageFetchResolves(h, ok, body)
    \/ \E h \in 1..MaxSubmits : PageFetchRejects(h)
    \/ \E h \in 1..MaxSubmits : \E kind \in {"content", "end", "error"} : PageReads(h, kind)
    \/ \E h \in 1..MaxSubmits : PageReadDone(h)
    \/ \E h \in 1..MaxSubmits : PageReadFails(h)

\* The chat page over several submits, each turn ending in any way.
SpecPage == Init /\ [][NextPage]_vars


NextChroma ==
    \/ \E fn \in Helpers : HelperCalled(fn)
    \/ \E c \in 1..MaxCalls : ChromaClientCreated(c)
    \/ \E c \in 1..MaxCalls : ChromaClientFails(c)
    \/ \E c \in 1..MaxCalls : LibraryResolves(c)
    \/ \E c \in 1..MaxCalls : LibraryRejects(c)
    \/ \E c \in 1..MaxCalls : DeleteResolves(c)

\* A caller of the chromaClient helpers, every awaited call resolving or
\* rejecting.
SpecChroma == Init /\ [][NextChroma]_vars


NextChat ==
    \/ \E c \in ChatClients : SocketConnects(c)
    \/ \E c \in ChatClients : \E answer \in PromptAnswers :
           \E random \in RandomParts : OnConnect(c, answer, random)
    \/ \E c \in ChatClients : Disconnects(c)
    \/ \E c \in ChatClients : \E value \in ChatInputs(c) : Submits(c, value)
    \/ \E c \in ChatClients : ServerReceives(c)
    \/ \E c \in ChatClients : ClientReceives(c)

\* The WebSocket chat: clients connect, type, submit and disconnect while the
\* server relays.
SpecChat == Init /\ [][NextChat]_vars


\* ------------------------------------------------------------------ claims

\* The frames that end a response stream.
IsTerminal(message) == message = EndMessage \/ message = ErrorMessage

\* The chunks of the model stream that carry content, in order.
Relayed(chunks) == SelectSeq(chunks, LAMBDA c : c # <<>>)

\* What the read loop has handled, by kind.
Handled(kinds) ==
    {i \in DOMAIN client.dispatched : client.dispatched[i].kind \in kinds}

\* C1: the frames written for an accepted turn end in exactly one terminal
\* frame, an end frame or an error frame and never both, and no content frame
\* follows it; until the response is closed no terminal frame is written,
\* and the body's bytes are those frames in that order.
C1_OneTerminalFrameLast ==
    /\ wire = Utf8Encode(Concat(written))
    /\ spc # "closed" => \A i \in DOMAIN written : ~IsTerminal(written[i])
    /\ (spc = "closed" /\ status = 200) =>
          /\ written # <<>>
          /\ IsTerminal(written[Len(written)])
          /\ \A i \in 1..(Len(written) - 1) : ~IsTerminal(written[i])
          /\ endCalls = 1

\* A turn that relayed two fragments and then failed is closed.
C1_Witness ==
    /\ spc = "closed"
    /\ Len(written) = 3
    /\ written[3] = ErrorMessage

\* C2: when the model stream ends without error and the client has read the
\* whole body, however it was cut into reads, currentAiText is the
\* concatenation of the stream's fragments and one end frame was handled.
C2_ClientReassemblesText ==
    (cpc = "done" /\ streamOutcome = "end") =>
        /\ client.currentAiText = Concat(produced)
        /\ client.aiHtml = Concat(produced)
        /\ Cardinality(Handled({"end"})) = 1
        /\ Handled({"error", "malformed", "nondata", "ignored"}) = {}

\* The relay scenario: fragments "Hel" and "lo" arrive as "Hello".
C2_Witness ==
    /\ cpc = "done"
    /\ streamOutcome = "end"
    /\ produced = << <<"H", "e", "l">>, <<"l", "o">> >>
    /\ client.currentAiText = <<"H", "e", "l", "l", "o">>

\* C3: the content frames are written in the order the stream produced their
\* fragments, the i-th frame carrying the i-th non-empty fragment, and when a
\* chunk is taken from the stream the frames of all earlier chunks have
\* been written.
C3_FramesInProductionOrder ==
    /\ SelectSeq(written, LAMBDA m : ~IsTerminal(m))
          = [i \in 1..Len(Relayed(produced)) |-> ContentMessage(Relayed(produced)[i])]
    /\ fullResponse = Concat(produced)
    /\ Len(takenLog) = Len(produced)
    /\ \A i \in DOMAIN takenLog :
          takenLog[i] = Len(Relayed(SubSeq(produced, 1, i - 1)))

\* Two different fragments were relayed, with more of the stream to come.
C3_Witness ==
    /\ spc = "streaming"
    /\ Len(written) = 2
    /\ written[1] # written[2]


\* The text the decoder has been given: the bytes read so far, decoded.
DeliveredText == Utf8Decode(SubSeq(wire, 1, delivered), <<>>).text

\* C4: whatever the reads, the read loop has handled what one read of all
\* the bytes delivered so far would have handled, and its buffer holds every
\* character that follows the last frame boundary it cut at: no chunk is
\* lost, doubled or changed by where the reads fall.
C4_ReadsCutAnywhere ==
    LET whole == Receive(FreshClient, SubSeq(wire, 1, delivered))
        text == DeliveredText
    IN  /\ client.dispatched = whole.dispatched
        /\ client.buffer = whole.buffer
        /\ client.currentAiText = whole.currentAiText
        /\ Boundaries(client.buffer) = {}
        /\ \E k \in 0..Len(text) :
              /\ client.buffer = SubSeq(text, k + 1, Len(text))
              /\ k = 0 \/ (k >= 2 /\ text[k - 1] = LF /\ text[k] = LF)

\* A read ended between the two newlines of a frame boundary, after a first
\* frame was handled: the buffer holds the second frame up to its first
\* newline.
C4_Witness ==
    /\ cpc = "reading"
    /\ Len(client.dispatched) = 1
    /\ 0 < delivered /\ delivered < Len(wire)
    /\ wire[delivered] = LF /\ wire[delivered + 1] = LF
    /\ client.buffer # <<>>
    /\ client.buffer[Len(client.buffer)] = LF

\* C5: when the model stream raises after some fragments and the client has
\* read the whole body, it has handled the content of those fragments, in
\* order, then one error frame, and no end frame.
C5_ErrorAfterPartialContent ==
    (cpc = "done" /\ streamOutcome = "error") =>
        LET d == client.dispatched
            sent == Relayed(produced)
        IN  /\ Len(d) = Len(sent) + 1
            /\ \A i \in 1..Len(sent) :
                  /\ d[i].kind = "content"
                  /\ d[i].text = Concat(SubSeq(sent, 1, i))
            /\ d[Len(d)].kind = "error"
            /\ d[Len(d)].text = Concat(produced)
            /\ client.aiError

\* The stream raised after "Hel": the client handled "Hel", then the error.
C5_Witness ==
    /\ cpc = "done"
    /\ streamOutcome = "error"
    /\ produced = << <<"H", "e", "l">> >>
    /\ Len(client.dispatched) = 2
    /\ client.dispatched[2].kind = "error"

\* Whether text holds part as a run of consecutive characters.
Contains(text, part) ==
    \E i \in 0..(Len(text) - Len(part)) : SubSeq(text, i + 1, i + Len(part)) = part

\* C6: after an error frame is handled the assistant message still holds the
\* text of the content frames received before it.
C6_PartialOutputKept ==
    \A i \in DOMAIN client.dispatched :
        client.dispatched[i].kind = "error" =>
            Contains(client.dispatched[i].html, client.dispatched[i].text)

\* C7: a request with no message, or an empty one, is answered 400 and
\* closed straight from idle: the event-stream headers are never set, the
\* model is never called and no frame is written.
C7_RejectedBeforeAnyFrame ==
    (request # NoRequest
        /\ (~request.message.present \/ request.message.text = <<>>)) =>
        /\ spc \in {"idle", "closed"}
        /\ spc = "closed" => (status = 400 /\ endCalls = 1)
        /\ ~sseHeaders
        /\ modelCalls = 0
        /\ written = <<>>
        /\ wire = <<>>

\* A request whose message is the empty string was rejected.
C7_Witness ==
    /\ spc = "closed"
    /\ status = 400
    /\ request.message.present
    /\ request.message.text = <<>>

\* What a peer's chunk is to be taken for.
PeerKind(message) ==
    CASE message = EndMessage -> "end"
      [] message = PeerError -> "error"
      [] message = PeerMalformed -> "malformed"
      [] message = PeerComment -> "nondata"
      [] OTHER -> "content"

\* The state of the text and the placeholder before the i-th handled chunk.
Before(i) ==
    IF i = 1
    THEN [text |-> <<>>, html |-> <<>>, failed |-> FALSE]
    ELSE [text |-> client.dispatched[i - 1].text,
          html |-> client.dispatched[i - 1].html,
          failed |-> client.dispatched[i - 1].failed]

\* C8: a data line whose payload is not JSON changes neither the text nor
\* the placeholder, and the turn goes on: once a body of complete frames is
\* read, every frame of it was handled, in order, each as what it is.
C8_MalformedFrameSkipped ==
    /\ \A i \in DOMAIN client.dispatched :
          client.dispatched[i].kind = "malformed" =>
              /\ client.dispatched[i].text = Before(i).text
              /\ client.dispatched[i].html = Before(i).html
              /\ client.dispatched[i].failed = Before(i).failed
    /\ (cpc = "done" /\ \A i \in DOMAIN written : written[i] # PeerTruncated) =>
          /\ Len(client.dispatched) = Len(written)
          /\ \A i \in DOMAIN written :
                client.dispatched[i].kind = PeerKind(written[i])

\* A malformed frame, then a content frame: the content was appended.
C8_Witness ==
    /\ cpc = "done"
    /\ written = <<PeerMalformed, ContentMessage(<<"H", "e", "l">>)>>
    /\ client.currentAiText = <<"H", "e", "l">>
    /\ client.dispatched[1].kind = "malformed"

\* C9: once an end frame or an error frame was handled, no later frame of
\* the turn changes the text or the placeholder.
C9_NothingAppliedAfterTerminal ==
    \A i, j \in DOMAIN client.dispatched :
        (i < j /\ client.dispatched[i].kind \in {"end", "error"}) =>
            /\ client.dispatched[j].text = client.dispatched[i].text
            /\ client.dispatched[j].html = client.dispatched[i].html
            /\ client.dispatched[j].failed = client.dispatched[i].failed

\* C10: when the body ends or the connection is lost after some content and
\* before any end or error frame, the request is not sent again and the
\* assistant message is marked as failed.
C10_IncompleteTurnMarkedFailed ==
    (cpc \in {"done", "caught"}
        /\ client.currentAiText # <<>>
        /\ Handled({"end", "error"}) = {}) =>
        /\ fetchCount = 1
        /\ client.aiError

\* C11: once the client's connection has closed, the handler stops writing
\* frames: at most the one write that meets the failure is made before the
\* relay loop is left (and no exception leaves the handler: the model's
\* handler always ends in its finally block).
C11_StopsWritingOnceClosed ==
    \A t \in Turns : turns[t].lateRelayed <= 1

\* C12: every accepted turn ends its response, and ends it once: whether the
\* stream completed, the model call failed or the stream raised part-way,
\* res.end() is reached, and it is never called twice.
C12_AcceptedTurnEndsOnce ==
    /\ [](endCalls <= 1)
    /\ (status = 200) ~> (spc = "closed" /\ endCalls = 1)

\* The stream raised after a chunk had been relayed, and the response was
\* ended once.
C12_Witness ==
    /\ status = 200
    /\ streamOutcome = "error"
    /\ Relayed(produced) # <<>>
    /\ spc = "closed"
    /\ endCalls = 1

\* The frames a response carries when it relays its own stream and nothing
\* else: a content frame per chunk with content, in order, then the frame of
\* the way the turn finished.
OwnFrames(tr) ==
    LET relayed == Relayed(tr.produced)
    IN  [i \in 1..Len(relayed) |-> ContentMessage(relayed[i])]
        \o (CASE tr.outcome = "end" -> <<EndMessage>>
              [] tr.outcome \in {"callfailed", "raised"} -> <<ErrorMessage>>
              [] OTHER -> <<>>)

\* C13: two turns whose handlers interleave at every await do not meet: each
\* response carries the frames of its own stream, in order, and no variable
\* one invocation has written is read or written by the other.
C13_TurnsIndependent ==
    /\ \A t \in Turns : turns[t].written = OwnFrames(turns[t])
    /\ \A a \in touched : \A b \in touched :
           a[2] = "w" /\ a[3] = b[3] => a[1] = b[1]

\* Both turns are mid-stream at once, each having relayed a chunk of its own.
C13_Witness ==
    /\ \A t \in Turns : turns[t].pc = "streaming" /\ Len(turns[t].written) = 1
    /\ turns[1].written # turns[2].written

\* Whether a message is among those given to the model.
Has(messages, message) == \E i \in 1..Len(messages) : messages[i] = message

\* C14: the messages given to the model in a turn hold the user entry and
\* the assistant entry of every turn that was finished before it.
C14_HistorySentToModel ==
    \A t \in Turns : \A e \in turns[t].earlier :
        /\ Has(turns[t].modelInput, HumanMessage(TurnText(e)))
        /\ Has(turns[t].modelInput, AIMessage(heap[<<e, "fullResponse">>]))

\* An input without its spaces: the inputs of the model have none inside.
Stripped(text) == SelectSeq(text, LAMBDA c : c # " ")

\* C15: a submitted turn makes one POST, whose body is {message: <trimmed
\* input>}, and no more however the turn goes on; an input that trims to
\* nothing makes none.
C15_OnePostPerTurn ==
    /\ fetchCount = Len(posts)
    /\ fetchCount = (IF cpc = "idle" THEN 0 ELSE 1)
    /\ \A i \in 1..Len(posts) :
           /\ Stripped(posts[i].typed) # <<>>
           /\ posts[i].body = JsonStringify(MessageKey, Stripped(posts[i].typed))

\* The input ' hi ' was submitted and the turn has run to its end.
C15_Witness ==
    /\ cpc = "done"
    /\ Len(posts) = 1
    /\ posts[1].typed # Stripped(posts[1].typed)
    /\ request.from = "page"

\* The entries of the record of the run that are of one of the kinds.
Logged(kinds) == SelectSeq(ragLog, LAMBDA e : e.kind \in kinds)

\* C16: a query whose retrieval returned no chunk is answered without the
\* model: the model is not invoked with nothing retrieved.
C16_EmptyRetrievalSkipsModel ==
    \A i \in 1..Len(ragLog) :
        ragLog[i].kind = "invoked" => ragLog[i].docs # <<>>

\* C17: a query that fails, in retrieval or in generation, ends alone: at the
\* end of a run whose ingestion succeeded every query of the script was
\* searched for, in order, and the vector store is as it was built.
C17_QueryErrorConfined ==
    LET searches == Logged({"searched", "search failed"})
        built == Logged({"indexed"})
    IN  /\ built # <<>> => vectorStore = built[1].docs
        /\ built # <<>> /\ rpc = "done" =>
               [i \in 1..Len(searches) |-> searches[i].query]
                   = [i \in 1..Len(Queries(script)) |-> i]

\* file-output-rag.js has ended: its first query failed in retrieval, its
\* second in generation, and its third was answered from the store.
C17_Witness ==
    /\ script = "file-output-rag"
    /\ rpc = "done"
    /\ vectorStore # <<>>
    /\ \E i \in 1..Len(ragLog) :
           ragLog[i].kind = "search failed" /\ ragLog[i].query = 1
    /\ \E i \in 1..Len(ragLog) :
           ragLog[i].kind = "generation failed" /\ ragLog[i].query = 2
    /\ ragLog[Len(ragLog)].kind = "answered" /\ ragLog[Len(ragLog)].query = 3

\* C18: an ingestion step that fails ends the run: it is the last thing the
\* script does, and no query is searched for and no model is invoked.
C18_IngestionFailureAborts ==
    \A i \in 1..Len(ragLog) :
        ragLog[i].kind = "ingestion failed" =>
            /\ i = Len(ragLog)
            /\ rpc = "done"
            /\ Logged({"searched", "search failed", "invoked"}) = <<>>

\* The documents were loaded and split, and building the store failed.
C18_Witness ==
    /\ Len(ragLog) = 3
    /\ ragLog[2].kind = "split" /\ ragLog[2].docs # <<>>
    /\ ragLog[3].kind = "ingestion failed"

RECURSIVE Blocks(_)
\* The parts of a context that blank lines separate.
Blocks(text) ==
    IF text = <<>> THEN <<>>
    ELSE LET boundary == IndexOfBoundary(text)
         IN  IF boundary = -1 THEN <<text>>
             ELSE <<SubSeq(text, 1, boundary)>>
                  \o Blocks(Substring(text, boundary + 2))

\* C20: the context given to the model lists every retrieved chunk once,
\* under its number: the i-th block is the i-th chunk, labelled i.
C20_ContextNumbersChunks ==
    \A n \in 1..Len(ragLog) :
        ragLog[n].kind = "invoked" =>
            LET blocks == Blocks(ragLog[n].context)
                found == ragLog[n].docs
            IN  /\ Len(blocks) = Len(found)
                /\ \A i \in 1..Len(found) :
                       blocks[i] = DocumentWord \o NumberToString(i)
                                       \o <<":", LF>> \o found[i]

\* The places of the record of the run that hold an entry of a kind for a
\* query.
LoggedAt(kind, q) ==
    {n \in 1..Len(ragLog) : ragLog[n].kind = kind /\ ragLog[n].query = q}

\* Whether a text ends with another.
EndsWith(text, tail) ==
    /\ Len(tail) <= Len(text)
    /\ SubSeq(text, Len(text) - Len(tail) + 1, Len(text)) = tail

\* C21: for each question the model is invoked after its retrieval has
\* returned, once, with a context made of the chunks of that retrieval, one
\* part for each; it is not invoked for a question whose retrieval failed.
C21_RetrievalThenOneModelCall ==
    \A q \in 1..Len(Queries(script)) :
        LET searched == LoggedAt("searched", q)
            invoked == LoggedAt("invoked", q)
        IN  /\ Cardinality(invoked) <= 1
            /\ LoggedAt("search failed", q) # {} => invoked = {}
            /\ (searched # {} /\ (queryNo > q \/ rpc = "done")) =>
                   Cardinality(invoked) = 1
            /\ \A n \in invoked :
                   LET parts == Blocks(ragLog[n].context)
                       found == ragLog[n].docs
                   IN  /\ \E m \in searched : m < n /\ ragLog[m].docs = found
                       /\ Len(parts) = Len(found)
                       /\ \A i \in 1..Len(found) : EndsWith(parts[i], found[i])

\* The second question of file-output-rag.js was answered from two chunks
\* after the retrieval of the first had failed.
C21_Witness ==
    /\ script = "file-output-rag"
    /\ LoggedAt("search failed", 1) # {}
    /\ LoggedAt("answered", 2) # {}
    /\ \E n \in LoggedAt("invoked", 2) : Len(ragLog[n].docs) = 2

\* Whether a sequence begins with another.
IsPrefix(short, long) ==
    Len(short) <= Len(long) /\ SubSeq(long, 1, Len(short)) = short

\* C22: the store only grows at its end, and not at all once the queries
\* have begun: no step of a query changes its entries or their order.
C22_StoreReadOnlyInQueries ==
    [][/\ IsPrefix(vectorStore, vectorStore')
       /\ rpc \in {"search", "generate"} => vectorStore' = vectorStore]_vars

\* The three questions of a script were all answered from a store of three
\* entries, which is as it was built.
C22_Witness ==
    /\ rpc = "done"
    /\ Len(vectorStore) = 3
    /\ Len(Logged({"answered"})) = 3
    /\ Logged({"indexed"})[1].docs = vectorStore


\* The handlers of the page that have called fetch and not reached the end of
\* their finally block.
InFlight ==
    {h \in DOMAIN page.handlers :
        page.handlers[h].pc \in {"fetching", "reading"}}

\* C26: the message input and the send button are disabled while a turn is
\* in flight and enabled when none is, however the turns ended, and at most
\* one turn is in flight on the page at any time.
C26_ControlsDisabledDuringTurn ==
    /\ Cardinality(InFlight) <= 1
    /\ InFlight # {} =>
           page.messageInputDisabled /\ page.sendButtonDisabled
    /\ InFlight = {} =>
           ~page.messageInputDisabled /\ ~page.sendButtonDisabled

\* Three turns have ended, one after an error frame, one on an HTTP error and
\* one on a failed read.
C26_Witness ==
    /\ Len(page.handlers) = 3
    /\ InFlight = {}
    /\ page.handlers[1].ending = "stream done"
    /\ page.handlers[1].last = "error"
    /\ page.handlers[2].ending = "http error"
    /\ page.handlers[3].ending = "read failed"

\* The calls of the two helpers that rethrow.
Rethrowing ==
    {c \in DOMAIN chroma.calls :
        chroma.calls[c].fn \in {"createVectorStore", "getSimilarDocuments"}}

\* C23: a call of createVectorStore or getSimilarDocuments calls the library
\* at most once; when that call fails the helper has logged the error once
\* and thrown it to its caller, and a helper that returned had no failure.
C23_FailureRethrownNotRetried ==
    \A c \in Rethrowing :
        LET call == chroma.calls[c]
        IN  /\ call.attempts <= 1
            /\ call.failed = "library" => call.pc = "threw" /\ call.logged = 1
            /\ call.pc = "returned" => call.failed = "none" /\ call.logged = 0

\* A store was created, and then a store creation and a search failed.
C23_Witness ==
    /\ Len(chroma.calls) = 3
    /\ chroma.calls[2].fn = "createVectorStore"
    /\ chroma.calls[2].failed = "library"
    /\ chroma.calls[3].fn = "getSimilarDocuments"
    /\ chroma.calls[3].failed = "library"

\* The texts a client has displayed that came from one sender.
FromSender(texts, s) == SelectSeq(texts, LAMBDA t : t[1] = ClientLetter(s))

\* Which of its sender's messages a text is.
Ordinal(text) == CHOOSE n \in 0..9 : Digit(n) = text[2]

\* The server takes a chat message off a client's socket in this step.
ReceivesChatMessage(c) ==
    /\ c \in ws.sockets
    /\ ws'.sockets = ws.sockets
    /\ ws.clients[c].outQ # <<>>
    /\ Head(ws.clients[c].outQ).name = "chat message"
    /\ ws'.clients[c].outQ = Tail(ws.clients[c].outQ)

\* C25: a chat message the server receives is emitted to every socket
\* connected at that moment, the sender's included, and each client displays
\* the messages of one sender in the order the sender emitted them.
C25_BroadcastToAllInOrder ==
    /\ [](\A c \in ChatClients : \A s \in ChatClients :
             LET texts == FromSender(ws.clients[c].inbox, s)
             IN  \A i \in DOMAIN texts : \A j \in DOMAIN texts :
                     i < j => Ordinal(texts[i]) < Ordinal(texts[j]))
    /\ [][\A c \in ChatClients :
             ReceivesChatMessage(c) =>
                 \A d \in ws.sockets :
                     ws'.clients[d].inQ =
                         Append(ws.clients[d].inQ, Head(ws.clients[c].outQ))]_vars

\* Both clients have displayed both messages of the first client.
C25_Witness ==
    /\ ws.clients[1].inbox = <<ChatText(1, 1), ChatText(1, 2)>>
    /\ ws.clients[2].inbox = <<ChatText(1, 1), ChatText(1, 2)>>

\* How many 'set username' events a queue holds.
SetNamesIn(queue) ==
    Len(SelectSeq(queue, LAMBDA e : e.name = "set username"))

\* C30: a client emits a 'chat message' only with a non-empty input and a
\* non-empty username; once it has connected its username is never empty, and
\* every connect emits exactly one 'set username', with that username, while
\* no other step emits one.
C30_EmitsNeedInputAndUsername ==
    /\ [](\A c \in ChatClients :
             ws.clients[c].connects > 0 => ws.clients[c].username # <<>>)
    /\ [][\A c \in ChatClients :
             LET old == ws.clients[c]
                 new == ws'.clients[c]
             IN  /\ new.sent > old.sent =>
                        /\ old.username # <<>>
                        /\ new.outQ # <<>>
                        /\ new.outQ[Len(new.outQ)].name = "chat message"
                        /\ new.outQ[Len(new.outQ)].data # <<>>
                 /\ new.connects > old.connects =>
                        /\ new.username # <<>>
                        /\ new.outQ = Append(old.outQ, SetUsername(new.username))
                 /\ new.connects = old.connects =>
                        SetNamesIn(new.outQ) <= SetNamesIn(old.outQ)]_vars

\* A client that cancelled the prompt of its second connect has a generated
\* name and has emitted a chat message under it.
C30_Witness ==
    /\ ws.clients[1].connects = 2
    /\ ws.clients[1].username = GeneratedName(<<"k", "3", "x", "9", "q">>)
    /\ ws.clients[1].sent = 1
    /\ ws.clients[1].outQ =
           <<SetUsername(ws.clients[1].username), ChatMessage(ChatText(1, 1))>>


\* What a written frame carries: the JSON after "data: " and before the
\* blank line.
FramePayload(message) ==
    JsonParse(SubSeq(message, Len(DataMarker) + 1, Len(message) - 2))

\* The texts of the content frames written so far, in order.
ContentTexts ==
    LET frames == SelectSeq(written,
                            LAMBDA w : FramePayload(w).key = ContentKey)
    IN  [i \in DOMAIN frames |-> FramePayload(frames[i]).value]

\* C27: no content frame with an empty text is written; the content frames
\* are as many as the fragments of the stream that were not empty, and
\* fullResponse is the concatenation of their texts.
C27_NoEmptyContentFrame ==
    /\ \A i \in DOMAIN ContentTexts : ContentTexts[i] # <<>>
    /\ Len(ContentTexts) = Len(Relayed(produced))
    /\ fullResponse = Concat(ContentTexts)

\* The stream yielded an empty fragment and then a fragment with text.
C27_Witness ==
    /\ Len(produced) = 2
    /\ produced[1] = <<>>
    /\ produced[2] # <<>>
    /\ ContentTexts = <<produced[2]>>
    /\ fullResponse = produced[2]

RECURSIVE Unterminated(_)
\* What follows the last double newline of a text: all of it if it has none.
Unterminated(text) ==
    LET boundary == IndexOfBoundary(text)
    IN  IF boundary = -1 THEN text
        ELSE Unterminated(Substring(text, boundary + 2))

RECURSIVE Terminated(_)
\* How many chunks of a text end in a double newline.
Terminated(text) ==
    LET boundary == IndexOfBoundary(text)
    IN  IF boundary = -1 THEN 0
        ELSE 1 + Terminated(Substring(text, boundary + 2))

\* C28: when the stream has ended and the body's last bytes were not
\* terminated by a double newline, they are still in the buffer: only the
\* terminated chunks were dispatched, and the text, the display and the error
\* mark are those the last dispatched chunk left.
C28_UnterminatedTailDropped ==
    (cpc = "done" /\ Unterminated(DeliveredText) # <<>>) =>
        LET count == Len(client.dispatched)
        IN  /\ client.buffer = Unterminated(DeliveredText)
            /\ count = Terminated(DeliveredText)
            /\ count = 0 => /\ client.currentAiText = <<>>
                            /\ client.aiHtml = <<>>
                            /\ ~client.aiError
            /\ count > 0 =>
                   /\ client.currentAiText = client.dispatched[count].text
                   /\ client.aiHtml = client.dispatched[count].html
                   /\ client.aiError = client.dispatched[count].failed

\* A content frame was handled, and a frame cut off before its boundary was
\* left in the buffer when the stream ended.
C28_Witness ==
    /\ cpc = "done"
    /\ client.buffer = PeerTruncated
    /\ Len(client.dispatched) = 1
    /\ client.currentAiText = <<"H", "e", "l">>
    /\ client.aiHtml = <<"H", "e", "l">>
    /\ ~client.aiError

\* C29: a response that is not OK, or that has no body, is never read: no
\* byte is taken from it, no chunk is dispatched, the accumulated text is
\* empty and the placeholder shows the connection error.
C29_RejectedResponseNotRead ==
    (cpc # "fetching" /\ (~ResponseOk(status) \/ ~HasBody(status))) =>
        /\ cpc = "caught"
        /\ delivered = 0
        /\ client.dispatched = <<>>
        /\ client.currentAiText = <<>>
        /\ client.aiHtml = ConnectErrorText
        /\ client.aiError

\* A 400 response whose body holds a content frame was rejected.
C29_Witness ==
    /\ cpc = "caught"
    /\ status = 400
    /\ Len(written) = 1
    /\ written[1] = ContentMessage(<<"H", "e", "l">>)
    /\ client.aiHtml = ConnectErrorText

=============================================================================
